---- MODULE Spec2Model ----
(***************************************************************************)
(* A model of textnoisr: CharNoiseAugmenter (src/textnoisr/noise.py) and   *)
(* the unbiasing functions (src/textnoisr/noise_unbiasing.py).             *)
(*                                                                         *)
(* Representation.                                                         *)
(*  - A character is a one-letter string, a str is a sequence of           *)
(*    characters, a list[str] is a sequence of such sequences.             *)
(*  - A float in [0,1] is an integer number of 1/Scale units               *)
(*    (fixed point, results rounded down).                                 *)
(*  - random.Random is a deterministic stream of raw draws: a tape of      *)
(*    TapeLen draws read cyclically (the generator's period) and a         *)
(*    position. random() is the raw draw, choice(seq) indexes seq by it.   *)
(***************************************************************************)
EXTENDS Integers, Sequences, FiniteSets, TLC

VARIABLES
    aug,    \* aug[i]: the i-th CharNoiseAugmenter object (its fields, and how __init__ ended)
    rng,    \* rng[i]: self.random of the i-th augmenter: [tape, pos]
    mt,     \* the stream random.Random(42) yields, <<>> until some augmenter was seeded with 42
    last,   \* last[i]: the latest add_noise call on augmenter i: input, outcome, output
    hist,   \* hist[i]: the calls made on augmenter i so far, in order (pair specification)
    exec,   \* the direct call of one executor method: arguments and result
    example \* the dict given to _add_noise_to_example: its contents before and after

vars == <<aug, rng, mt, last, hist, exec, example>>

----------------------------------------------------------------------------
(* Bounds of the model *)

MaxLen == 2         \* longest str given to add_noise
MaxExecLen == 3     \* longest str given to an executor called directly
TapeLen == 2        \* period of an augmenter's random stream
ExecTapeLen == 3    \* period of the random stream of an executor called directly
MaxCalls == 2       \* add_noise calls per augmenter in the pair specification

(* Program constants, in fixed point *)

Scale == 1000                  \* 1.0
MAX_SWAP_LEVEL == 535          \* 4 - 2*sqrt(3) - epsilon = 0.5358983848622454, rounded down
SWAP_FORMULA_LEN == 50         \* above this length unbias_swap uses the closed formula

AVAILABLE_ACTIONS == <<"insert", "swap", "substitute", "delete">>

Range(s) == {s[k] : k \in 1..Len(s)}

----------------------------------------------------------------------------
(* Input domains *)

\* Every sequence over S of length at most n.
SeqsUpTo(S, n) == UNION {[1..k -> S] : k \in 0..n}

Texts == SeqsUpTo({"a", "b"}, MaxLen)

ExecTexts == SeqsUpTo({"a", "b", "c"}, MaxExecLen)

\* The raw draws a tape may hold: random() is Draw / Scale, always in [0,1).
Draws == {0, Scale - 1}

\* The streams of period n. A generator's stream is not constant: it yields both
\* its lowest and its highest draw.
TapesOf(n) == {t \in [1..n -> Draws] : 0 \in Range(t) /\ (Scale - 1) \in Range(t)}

Tapes == TapesOf(TapeLen)

ExecTapes == TapesOf(ExecTapeLen)

CharacterSets == {<<>>, <<"a">>, <<"a", "b">>}

ExecCharacterSets == {<<>>, <<"a">>, <<"a", "b">>, <<"x", "y">>}

Probabilities == {0, 300, MAX_SWAP_LEVEL, Scale}

----------------------------------------------------------------------------
(* random.Random *)

\* The raw draw at stream position pos.
Draw(tape, pos) == tape[(pos % Len(tape)) + 1]

\* A success test that compares with <=: a draw of 0 succeeds at probability 0.
random_success_le(p, tape, pos) == Draw(tape, pos) <= p

\* CharNoiseAugmenter._random_success: random() < p. One draw.
random_success(p, tape, pos) == Draw(tape, pos) < p

\* random.choice(seq) for a non-empty seq. One draw.
choice(seq, tape, pos) == seq[((Draw(tape, pos) * Len(seq)) \div Scale) + 1]

\* The result of an executor, or of a step of it: the characters produced, the
\* stream position reached, the exception raised ("" when none; "hang" when the
\* call never returns) and, per source character, whether its success test
\* succeeded (a record of the run, read by no code).
ResH(out, pos, err, hit) == [out |-> out, pos |-> pos, err |-> err, hit |-> hit]

Res(out, pos, err) == ResH(out, pos, err, <<>>)

\* CharNoiseAugmenter._random_char: success * choice(character_set). Both operands
\* are evaluated, the success test first; choice raises on an empty sequence.
random_char(p, cs, tape, pos) ==
    LET success == random_success(p, tape, pos) IN
    IF Len(cs) = 0 THEN ResH(<<>>, pos + 1, "IndexError", <<success>>)
    ELSE ResH(IF success THEN <<choice(cs, tape, pos + 1)>> ELSE <<>>, pos + 2, "",
              <<success>>)

----------------------------------------------------------------------------
(* insert_random_chars *)

\* An insertion that puts the drawn character before the source character.
RECURSIVE InsertLoopBefore(_, _, _, _, _, _)
InsertLoopBefore(text, i, p, cs, tape, st) ==
    IF i > Len(text) THEN st
    ELSE LET rc == random_char(p, cs, tape, st.pos) IN
         IF rc.err # "" THEN ResH(st.out, rc.pos, rc.err, st.hit)
         ELSE InsertLoopBefore(text, i + 1, p, cs, tape,
                               ResH(st.out \o rc.out \o <<text[i]>>, rc.pos, "",
                                    st.hit \o rc.hit))

insert_random_chars_before(text, p, cs, tape, pos) ==
    InsertLoopBefore(text, 1, p, cs, tape, Res(<<>>, pos, ""))

\* "".join(char + self._random_char(p, self.character_set) for char in text)
RECURSIVE InsertLoop(_, _, _, _, _, _)
InsertLoop(text, i, p, cs, tape, st) ==
    IF i > Len(text) THEN st
    ELSE LET rc == random_char(p, cs, tape, st.pos) IN
         IF rc.err # "" THEN ResH(st.out, rc.pos, rc.err, st.hit)
         ELSE InsertLoop(text, i + 1, p, cs, tape,
                         ResH(st.out \o <<text[i]>> \o rc.out, rc.pos, "",
                              st.hit \o rc.hit))

insert_random_chars(text, p, cs, tape, pos) ==
    InsertLoop(text, 1, p, cs, tape, Res(<<>>, pos, ""))

----------------------------------------------------------------------------
(* substitute_random_chars *)

\* The draws of the rejection loop, from position pos on, that yield a character
\* other than char. The stream is periodic, so if none of the draws of one period
\* does, none ever will.
OtherDraws(char, cs, tape, pos) ==
    {k \in 0..(Len(tape) - 1) : choice(cs, tape, pos + k) # char}

\* A rejection loop that does not loop: the first draw is returned, equal to
\* char or not.
choose_another_character_once(char, cs, tape, pos) ==
    IF Len(cs) = 0 THEN Res(<<>>, pos, "IndexError")
    ELSE Res(<<choice(cs, tape, pos)>>, pos + 1, "")

\* CharNoiseAugmenter._choose_another_character: draw until the character differs.
choose_another_character(char, cs, tape, pos) ==
    IF Len(cs) = 0 THEN Res(<<>>, pos, "IndexError")
    ELSE LET ks == OtherDraws(char, cs, tape, pos) IN
         IF ks = {} THEN Res(<<>>, pos, "hang")
         ELSE LET k == CHOOSE x \in ks : \A y \in ks : x <= y IN
              Res(<<choice(cs, tape, pos + k)>>, pos + k + 1, "")

RECURSIVE SubstituteLoop(_, _, _, _, _, _)
SubstituteLoop(text, i, p, cs, tape, st) ==
    IF i > Len(text) THEN st
    ELSE IF random_success(p, tape, st.pos)
         THEN LET oc == choose_another_character(text[i], cs, tape, st.pos + 1) IN
              IF oc.err # "" THEN ResH(st.out, oc.pos, oc.err, st.hit)
              ELSE SubstituteLoop(text, i + 1, p, cs, tape,
                                  ResH(st.out \o oc.out, oc.pos, "", Append(st.hit, TRUE)))
         ELSE SubstituteLoop(text, i + 1, p, cs, tape,
                             ResH(st.out \o <<text[i]>>, st.pos + 1, "",
                                  Append(st.hit, FALSE)))

substitute_random_chars(text, p, cs, tape, pos) ==
    SubstituteLoop(text, 1, p, cs, tape, Res(<<>>, pos, ""))

----------------------------------------------------------------------------
(* delete_random_chars *)

\* "".join(["" if self._random_success(p) else char for char in text])
RECURSIVE DeleteLoop(_, _, _, _, _)
DeleteLoop(text, i, p, tape, st) ==
    IF i > Len(text) THEN st
    ELSE LET success == random_success(p, tape, st.pos) IN
         DeleteLoop(text, i + 1, p, tape,
                    ResH(IF success THEN st.out ELSE st.out \o <<text[i]>>,
                         st.pos + 1, "", Append(st.hit, success)))

\* A delete that writes the character twice where it should write it once
\* (char * 2 for char, on the branch that keeps it).
RECURSIVE DeleteLoopDoubling(_, _, _, _, _)
DeleteLoopDoubling(text, i, p, tape, st) ==
    IF i > Len(text) THEN st
    ELSE LET success == random_success(p, tape, st.pos) IN
         DeleteLoopDoubling(text, i + 1, p, tape,
                            ResH(IF success THEN st.out ELSE st.out \o <<text[i], text[i]>>,
                                 st.pos + 1, "", Append(st.hit, success)))

delete_random_chars_doubling(text, p, tape, pos) ==
    DeleteLoopDoubling(text, 1, p, tape, Res(<<>>, pos, ""))

delete_random_chars(text, p, tape, pos) ==
    DeleteLoop(text, 1, p, tape, Res(<<>>, pos, ""))

----------------------------------------------------------------------------
(* noise_unbiasing: the expected CER of the swap Markov chain *)

SWAP_START_STATE == <<0, 0, 0, 0, 0, 0, 0, Scale>>

SWAP_LEVENSHTEIN_VALUE == <<1, 0, 0, 2, 0, 2, 0, 0>>

\* The transition matrix P for swap probability p (q = 1 - p).
TransitionMatrix(p) ==
    LET q == Scale - p
        o == Scale IN
    << <<0, 0, o, 0, 0, 0, 0, 0>>,
       <<0, 0, 0, p, q, 0, 0, 0>>,
       <<p, q, 0, 0, 0, 0, 0, 0>>,
       <<0, 0, o, 0, 0, 0, 0, 0>>,
       <<0, 0, 0, p, q, 0, 0, 0>>,
       <<0, 0, o, 0, 0, 0, 0, 0>>,
       <<0, 0, 0, p, q, 0, 0, 0>>,
       <<0, 0, 0, 0, 0, p, q, 0>> >>

\* state @ SWAP_LEVENSHTEIN_VALUE
Dot(s, v) ==
    s[1] * v[1] + s[2] * v[2] + s[3] * v[3] + s[4] * v[4]
    + s[5] * v[5] + s[6] * v[6] + s[7] * v[7] + s[8] * v[8]

\* state @ P, in fixed point. Only the entries of P that are not zero for every p
\* are summed (each column of P has at most three).
VecMat(s, P) ==
    << (s[3] * P[3][1]) \div Scale,
       (s[3] * P[3][2]) \div Scale,
       (s[1] * P[1][3] + s[4] * P[4][3] + s[6] * P[6][3]) \div Scale,
       (s[2] * P[2][4] + s[5] * P[5][4] + s[7] * P[7][4]) \div Scale,
       (s[2] * P[2][5] + s[5] * P[5][5] + s[7] * P[7][5]) \div Scale,
       (s[8] * P[8][6]) \div Scale,
       (s[8] * P[8][7]) \div Scale,
       0 >>

RECURSIVE ChainLoop(_, _, _, _)
ChainLoop(state, levenshtein, steps, P) ==
    IF steps <= 0 THEN levenshtein
    ELSE LET next == VecMat(state, P) IN
         ChainLoop(next, levenshtein + Dot(next, SWAP_LEVENSHTEIN_VALUE), steps - 1, P)

\* __compute_expected_cer_from_noise_level, for N >= 1
compute_expected_cer_from_noise_level(p, N) ==
    ChainLoop(SWAP_START_STATE, Dot(SWAP_START_STATE, SWAP_LEVENSHTEIN_VALUE),
              N - 1, TransitionMatrix(p)) \div N

\* The least x in lo..hi with expected CER >= cer, given that hi is one.
RECURSIVE Bisect(_, _, _, _)
Bisect(cer, N, lo, hi) ==
    IF lo >= hi THEN hi
    ELSE LET mid == (lo + hi) \div 2 IN
         IF compute_expected_cer_from_noise_level(mid, N) >= cer
         THEN Bisect(cer, N, lo, mid)
         ELSE Bisect(cer, N, mid + 1, hi)

\* __compute_noise_level_from_expected_cer: fsolve started at 0. The root is the
\* point where the expected CER reaches cer; when it never does (N = 1: the
\* expected CER is 0 whatever p) the solver stays at its starting point.
compute_noise_level_from_expected_cer(cer, N) ==
    IF compute_expected_cer_from_noise_level(Scale, N) < cer THEN 0
    ELSE Bisect(cer, N, 0, Scale)

Min(a, b) == IF a <= b THEN a ELSE b

\* The largest r in lo..hi with r * r <= x, given that lo is one.
RECURSIVE SqrtSearch(_, _, _)
SqrtSearch(x, lo, hi) ==
    IF lo >= hi THEN lo
    ELSE LET mid == (lo + hi + 1) \div 2 IN
         IF mid * mid <= x THEN SqrtSearch(x, mid, hi) ELSE SqrtSearch(x, lo, mid - 1)

\* math.sqrt on fixed point: sqrt(x / Scale^2) * Scale for x the product of two
\* fixed-point numbers.
ISqrt(x) == SqrtSearch(x, 0, 2 * Scale)

\* unbias_swap
unbias_swap(p0, N) ==
    LET p == Min(p0, MAX_SWAP_LEVEL) IN
    IF N = 0 THEN p
    ELSE IF p = 0 THEN 0
    ELSE IF N > SWAP_FORMULA_LEN
         THEN ((2 * Scale - p) - ISqrt(p * p - 8 * Scale * p + 4 * Scale * Scale)) \div 2
    ELSE compute_noise_level_from_expected_cer(p, N)

----------------------------------------------------------------------------
(* consecutive_swap_random_chars *)

\* The loop over zip_longest(text, text[1:], fillvalue=""): one pair per character.
RECURSIVE SwapLoop(_, _, _, _, _, _)
SwapLoop(text, i, p, tape, st, was_swapped) ==
    IF i > Len(text) THEN st
    ELSE IF was_swapped
         THEN SwapLoop(text, i + 1, p, tape,
                       ResH(st.out, st.pos, "", Append(st.hit, FALSE)), FALSE)
    ELSE LET next_char == IF i < Len(text) THEN <<text[i + 1]>> ELSE <<>> IN
         IF random_success(p, tape, st.pos)
         THEN SwapLoop(text, i + 1, p, tape,
                       ResH(st.out \o next_char \o <<text[i]>>, st.pos + 1, "",
                            Append(st.hit, TRUE)), TRUE)
         ELSE SwapLoop(text, i + 1, p, tape,
                       ResH(st.out \o <<text[i]>>, st.pos + 1, "",
                            Append(st.hit, FALSE)), FALSE)

\* The same loop without the was_swapped flag: a character just swapped is
\* tried again as the first of the next pair.
RECURSIVE SwapLoopNoFlag(_, _, _, _, _)
SwapLoopNoFlag(text, i, p, tape, st) ==
    IF i > Len(text) THEN st
    ELSE LET next_char == IF i < Len(text) THEN <<text[i + 1]>> ELSE <<>> IN
         IF random_success(p, tape, st.pos)
         THEN SwapLoopNoFlag(text, i + 1, p, tape,
                             ResH(st.out \o next_char \o <<text[i]>>, st.pos + 1, "",
                                  Append(st.hit, TRUE)))
         ELSE SwapLoopNoFlag(text, i + 1, p, tape,
                             ResH(st.out \o <<text[i]>>, st.pos + 1, "",
                                  Append(st.hit, FALSE)))

consecutive_swap_random_chars_no_flag(text, p, tape, pos) ==
    SwapLoopNoFlag(text, 1, unbias_swap(p, Len(text)), tape, Res(<<>>, pos, ""))

\* A swap that only ever tries the first pair of the text.
consecutive_swap_random_chars_first_pair(text, p, tape, pos) ==
    IF Len(text) >= 2 /\ random_success(unbias_swap(p, Len(text)), tape, pos)
    THEN ResH(<<text[2], text[1]>> \o SubSeq(text, 3, Len(text)), pos + 1, "",
              [k \in 1..Len(text) |-> k = 1])
    ELSE ResH(text, pos + 1, "", [k \in 1..Len(text) |-> FALSE])

consecutive_swap_random_chars(text, p, tape, pos) ==
    SwapLoop(text, 1, unbias_swap(p, Len(text)), tape, Res(<<>>, pos, ""), FALSE)

----------------------------------------------------------------------------
(* noise_unbiasing: word splitting and several actions *)

\* A float result: its value, whether Python made it a complex number, and the
\* exception raised instead ("" when none).
Prob(v) == [v |-> v, complex |-> FALSE, err |-> ""]

RECURSIVE SumLen(_)
SumLen(words) == IF words = <<>> THEN 0 ELSE Len(Head(words)) + SumLen(Tail(words))

\* unbias_split_into_words: p * (1 + n_spaces / n_chars)
unbias_split_into_words(p, text) ==
    LET n_chars == SumLen(text)
        n_spaces == Len(text) - 1 IN
    IF n_chars = 0 THEN [v |-> 0, complex |-> FALSE, err |-> "ZeroDivisionError"]
    ELSE Prob((p * (n_chars + n_spaces)) \div n_chars)

\* The largest r in lo..hi with r^3 <= x, given that lo is one.
RECURSIVE CbrtSearch(_, _, _)
CbrtSearch(x, lo, hi) ==
    IF lo >= hi THEN lo
    ELSE LET mid == (lo + hi + 1) \div 2 IN
         IF mid * mid * mid <= x THEN CbrtSearch(x, mid, hi) ELSE CbrtSearch(x, lo, mid - 1)

\* x ** (1 / n) for x in [0,1] and n in 1..4 (an augmenter holds at most the four
\* available actions).
NthRoot(x, n) ==
    CASE n = 1 -> x
      [] n = 2 -> ISqrt(x * Scale)
      [] n = 3 -> CbrtSearch(x * Scale * Scale, 0, Scale)
      [] n = 4 -> ISqrt(ISqrt(x * Scale) * Scale)

\* unbias_several_action: 1.0 - (1.0 - p) ** (1 / n_actions). A negative base with
\* a fractional exponent gives a complex number in Python.
unbias_several_action(p, n_actions) ==
    IF n_actions = 0 THEN [v |-> 0, complex |-> FALSE, err |-> "ZeroDivisionError"]
    ELSE IF Scale - p < 0
         THEN IF n_actions = 1 THEN Prob(p)
              ELSE [v |-> 0, complex |-> TRUE, err |-> ""]
    ELSE Prob(Scale - NthRoot(Scale - p, n_actions))

----------------------------------------------------------------------------
(* CharNoiseAugmenter.add_noise *)

\* action_function(word, p_effective). With a complex p_effective, min() in
\* unbias_swap and the comparison in _random_success raise TypeError, the latter
\* after its draw.
Execute(action, word, pe, cs, tape, pos) ==
    IF pe.complex
    THEN IF action = "swap" THEN Res(<<>>, pos, "TypeError")
         ELSE IF Len(word) = 0 THEN Res(<<>>, pos, "")
         ELSE Res(<<>>, pos + 1, "TypeError")
    ELSE CASE action = "insert" -> insert_random_chars(word, pe.v, cs, tape, pos)
           [] action = "swap" -> consecutive_swap_random_chars(word, pe.v, tape, pos)
           [] action = "substitute" -> substitute_random_chars(word, pe.v, cs, tape, pos)
           [] action = "delete" -> delete_random_chars(word, pe.v, tape, pos)
           [] OTHER -> Res(<<>>, pos, "ValueError")

RECURSIVE Concat(_)
Concat(words) == IF words = <<>> THEN <<>> ELSE Head(words) \o Concat(Tail(words))

\* The action applied once to the words joined into one text, instead of word
\* by word.
WordsLoop_joined(action, words, j, pe, cs, tape, st) ==
    IF j > Len(words) THEN st
    ELSE LET r == Execute(action, Concat(words), pe, cs, tape, st.pos) IN
         IF r.err # "" THEN Res(st.out, r.pos, r.err)
         ELSE Res(<<r.out>>, r.pos, "")

\* [action_function(word, p_effective) for word in text]
RECURSIVE WordsLoop(_, _, _, _, _, _, _)
WordsLoop(action, words, j, pe, cs, tape, st) ==
    IF j > Len(words) THEN st
    ELSE LET r == Execute(action, words[j], pe, cs, tape, st.pos) IN
         IF r.err # "" THEN Res(st.out, r.pos, r.err)
         ELSE WordsLoop(action, words, j + 1, pe, cs, tape,
                        Res(Append(st.out, r.out), r.pos, ""))

\* The actions run from the last declared to the first.
RECURSIVE ActionsLoop_reversed(_, _, _, _, _, _)
ActionsLoop_reversed(actions, k, pe, cs, tape, st) ==
    IF k > Len(actions) THEN st
    ELSE LET r == WordsLoop(actions[Len(actions) - k + 1], st.out, 1, pe, cs, tape,
                            Res(<<>>, st.pos, "")) IN
         IF r.err # "" THEN r
         ELSE ActionsLoop_reversed(actions, k + 1, pe, cs, tape, r)

\* for action in self.actions: each action takes the previous one's output.
RECURSIVE ActionsLoop(_, _, _, _, _, _)
ActionsLoop(actions, k, pe, cs, tape, st) ==
    IF k > Len(actions) THEN st
    ELSE LET r == WordsLoop(actions[k], st.out, 1, pe, cs, tape, Res(<<>>, st.pos, "")) IN
         IF r.err # "" THEN r
         ELSE ActionsLoop(actions, k + 1, pe, cs, tape, r)

\* add_noise on the augmenter self, whose stream stands at pos. text is
\* [kind, val]: a str is held as the one word of val, a list[str] as its words.
add_noise(self, text, tape, pos) ==
    LET p == IF text.kind = "list"
             THEN unbias_split_into_words(self.noise_level, text.val)
             ELSE Prob(self.noise_level) IN
    IF p.err # "" THEN Res(<<>>, pos, p.err)
    ELSE LET p_effective == unbias_several_action(p.v, Len(self.actions)) IN
         IF p_effective.err # "" THEN Res(<<>>, pos, p_effective.err)
         ELSE ActionsLoop(self.actions, 1, p_effective, self.character_set, tape,
                          Res(text.val, pos, ""))

----------------------------------------------------------------------------
(* CharNoiseAugmenter.__init__ *)

\* The actions with duplicates dropped keeping the last occurrence of each.
DedupKeepLast(actions) ==
    LET keep(i) == \A j \in (i + 1)..Len(actions) : actions[j] # actions[i]
        F[i \in 0..Len(actions)] ==
            IF i = 0 THEN <<>>
            ELSE IF keep(i) THEN Append(F[i - 1], actions[i]) ELSE F[i - 1]
    IN F[Len(actions)]

\* [x for i, x in enumerate(actions) if x not in actions[:i]]
Dedup(actions) ==
    LET keep(i) == \A j \in 1..(i - 1) : actions[j] # actions[i]
        F[i \in 0..Len(actions)] ==
            IF i = 0 THEN <<>>
            ELSE IF keep(i) THEN Append(F[i - 1], actions[i]) ELSE F[i - 1]
    IN F[Len(actions)]

\* The checks with the swap bound compared by >=: MAX_SWAP_LEVEL itself is refused.
init_checks_swap_ge(noise_level, actions) ==
    IF \E k \in 1..Len(actions) : actions[k] \notin Range(AVAILABLE_ACTIONS)
    THEN "unsupported actions"
    ELSE IF ~(0 <= noise_level /\ noise_level <= Scale)
    THEN "noise level"
    ELSE IF noise_level >= MAX_SWAP_LEVEL /\ "swap" \in Range(actions)
    THEN "swap level"
    ELSE ""

\* The checks of __init__, in order: the error raised, "" when none.
init_checks(noise_level, actions) ==
    IF \E k \in 1..Len(actions) : actions[k] \notin Range(AVAILABLE_ACTIONS)
    THEN "unsupported actions"
    ELSE IF ~(0 <= noise_level /\ noise_level <= Scale)
    THEN "noise level"
    ELSE IF noise_level > MAX_SWAP_LEVEL /\ "swap" \in Range(actions)
    THEN "swap level"
    ELSE ""

----------------------------------------------------------------------------
(* The state machine *)

Instances == {1, 2}

\* The seed argument: None (the default: the stream is seeded from the system's
\* entropy) or an integer.
Seeds == {"None", "42"}

NoAug ==
    [state |-> "none", error |-> "", noise_level |-> 0, actions |-> <<>>,
     character_set |-> <<>>, actions_arg |-> <<>>]

NoRng == [seed |-> "None", tape |-> <<>>, pos |-> 0]

NoCall ==
    [status |-> "none", kind |-> "str", input |-> <<>>, output |-> <<>>, pre |-> 0,
     caller |-> <<>>]

\* No dict was given yet. A dict holds the feature "tokens", a str or a list of
\* str, and one other feature.
NoRecord == [tokens |-> [kind |-> "str", val |-> << <<>> >>], label |-> 0]

NoExample == [status |-> "none", arg |-> NoRecord, obj |-> NoRecord, ret |-> NoRecord]

NoExec ==
    [op |-> "none", text |-> <<>>, p |-> 0, character_set |-> <<>>, tape |-> <<>>,
     res |-> Res(<<>>, 0, "")]

Init ==
    /\ aug = [i \in Instances |-> NoAug]
    /\ rng = [i \in Instances |-> NoRng]
    /\ mt = <<>>
    /\ last = [i \in Instances |-> NoCall]
    /\ hist = [i \in Instances |-> <<>>]
    /\ exec = NoExec
    /\ example = NoExample

\* random.Random() whatever the seed: every augmenter gets a stream of its own.
SeedStream_unseeded(seed, tape) == tape \in Tapes

\* random.Random(seed): the stream of an integer seed is a function of the seed,
\* that of None is any stream.
SeedStream(seed, tape) ==
    IF seed = "None" \/ mt = <<>> THEN tape \in Tapes ELSE tape = mt

\* CharNoiseAugmenter(noise_level, actions, character_set, seed) for the i-th
\* augmenter. The fields are assigned and the stream created before the checks;
\* a failed check raises ValueError and leaves no object to call.
Construct(i, noise_level, actions, character_set, seed) ==
    /\ aug[i].state = "none"
    /\ \E tape \in Tapes :
         /\ SeedStream(seed, tape)
         /\ rng' = [rng EXCEPT ![i] = [seed |-> seed, tape |-> tape, pos |-> 0]]
         /\ mt' = IF seed = "None" THEN mt ELSE tape
    /\ LET error == init_checks(noise_level, Dedup(actions)) IN
       aug' = [aug EXCEPT ![i] =
                  [state |-> IF error = "" THEN "ok" ELSE "ValueError",
                   error |-> error,
                   noise_level |-> noise_level,
                   actions |-> Dedup(actions),
                   character_set |-> character_set,
                   actions_arg |-> actions]]
    /\ UNCHANGED <<last, hist, exec, example>>

\* The record of one add_noise call: its input, how it ended ("ok", the exception
\* raised, or "hang" when it never returns), the value returned, and the contents
\* of the caller's object after the call: add_noise binds its local name text to
\* a new list or str at each action and never writes into the object it was given.
CallRecord(text, pre, r) ==
    [status |-> IF r.err = "" THEN "ok" ELSE r.err,
     kind |-> text.kind,
     input |-> text.val,
     output |-> IF r.err = "" THEN r.out ELSE <<>>,
     pre |-> pre,
     caller |-> text.val]

\* A call that never returns stops the (single-threaded) program.
Running == \A j \in Instances : last[j].status # "hang"

\* A call that first puts the stream back to its start.
Call_restart(i, text) ==
    /\ aug[i].state = "ok"
    /\ Running
    /\ \E r \in {add_noise(aug[i], text, rng[i].tape, 0)} :
         /\ rng' = [rng EXCEPT ![i].pos = r.pos % Len(rng[i].tape)]
         /\ last' = [last EXCEPT ![i] = CallRecord(text, 0, r)]

\* aug[i].add_noise(text): the stream advances by the draws made, also when the
\* call raises.
Call(i, text) ==
    /\ aug[i].state = "ok"
    /\ Running
    /\ \E r \in {add_noise(aug[i], text, rng[i].tape, rng[i].pos)} :
         /\ rng' = [rng EXCEPT ![i].pos = r.pos % Len(rng[i].tape)]
         /\ last' = [last EXCEPT ![i] = CallRecord(text, rng[i].pos, r)]

AddNoise(i, text) ==
    /\ Call(i, text)
    /\ UNCHANGED <<aug, mt, hist, exec, example>>

\* The same call, logged in hist (at most MaxCalls calls per augmenter).
LoggedAddNoise(i, text) ==
    /\ Len(hist[i]) < MaxCalls
    /\ Call(i, text)
    /\ hist' = [hist EXCEPT ![i] = Append(@, last'[i])]
    /\ UNCHANGED <<aug, mt, exec, example>>

----------------------------------------------------------------------------
(* Spec: one augmenter, built with the default seed, and its add_noise calls *)

NoiseLevels == {0 - 1, 0, MAX_SWAP_LEVEL, MAX_SWAP_LEVEL + 1, Scale, Scale + 1}

ActionArgs ==
    { <<>>,
      <<"insert">>, <<"swap">>, <<"substitute">>, <<"delete">>,
      <<"shuffle">>, <<"delete", "shuffle">>,
      <<"insert", "swap">>,
      <<"substitute", "delete", "substitute">>,
      AVAILABLE_ACTIONS }

Str(t) == [kind |-> "str", val |-> <<t>>]

List(ws) == [kind |-> "list", val |-> ws]

WordLists ==
    LET e == <<>>
        a == <<"a">>
        b == <<"b">>
        ab == <<"a", "b">>
    IN { <<>>, <<e>>, <<e, e>>, <<ab>>, <<a, b>>, <<ab, e>>, <<a, ab>>, <<e, a, b>> }

Inputs == {Str(t) : t \in Texts} \cup {List(ws) : ws \in WordLists}

Next ==
    \/ \E noise_level \in NoiseLevels, actions \in ActionArgs,
          character_set \in CharacterSets :
          Construct(1, noise_level, actions, character_set, "None")
    \/ \E text \in Inputs : AddNoise(1, text)

Spec == Init /\ [][Next]_vars

----------------------------------------------------------------------------
(* SpecExec: one executor method called directly on a text, with a probability *)

ExecArgs ==
    {[op |-> "none", text |-> text, p |-> p, character_set |-> cs, tape |-> tape,
      res |-> Res(<<>>, 0, "")] :
        text \in ExecTexts, p \in Probabilities, cs \in ExecCharacterSets,
        tape \in ExecTapes}

InitExec ==
    /\ aug = [i \in Instances |-> NoAug]
    /\ rng = [i \in Instances |-> NoRng]
    /\ mt = <<>>
    /\ last = [i \in Instances |-> NoCall]
    /\ hist = [i \in Instances |-> <<>>]
    /\ exec \in ExecArgs
    /\ example = NoExample

Ran(op, res) ==
    /\ exec.op = "none"
    /\ exec' = [exec EXCEPT !.op = op, !.res = res]
    /\ UNCHANGED <<aug, rng, mt, last, hist, example>>

ExecInsert ==
    Ran("insert", insert_random_chars(exec.text, exec.p, exec.character_set, exec.tape, 0))

ExecSubstitute ==
    Ran("substitute",
        substitute_random_chars(exec.text, exec.p, exec.character_set, exec.tape, 0))

ExecDelete ==
    Ran("delete", delete_random_chars(exec.text, exec.p, exec.tape, 0))

ExecSwap ==
    Ran("swap", consecutive_swap_random_chars(exec.text, exec.p, exec.tape, 0))

NextExec == ExecInsert \/ ExecSubstitute \/ ExecDelete \/ ExecSwap

SpecExec == InitExec /\ [][NextExec]_vars

----------------------------------------------------------------------------
(* SpecPair: two augmenters, their seeds, and their interleaved logged calls *)

PairArgs ==
    { [noise_level |-> MAX_SWAP_LEVEL, actions |-> <<"substitute">>,
       character_set |-> <<"a", "b">>],
      [noise_level |-> MAX_SWAP_LEVEL, actions |-> <<"insert", "delete">>,
       character_set |-> <<"a", "b">>] }

PairInputs == {Str(<<"a", "b", "a">>), List(<< <<"b">>, <<"a">> >>)}

NextPair ==
    \/ \E i \in Instances, args \in PairArgs, seed \in Seeds :
          Construct(i, args.noise_level, args.actions, args.character_set, seed)
    \/ \E i \in Instances, text \in PairInputs : LoggedAddNoise(i, text)

SpecPair == Init /\ [][NextPair]_vars

----------------------------------------------------------------------------
(* SpecDataset: noise_dataset._add_noise_to_example on the dicts of a dataset *)

Examples == {[tokens |-> text, label |-> label] : text \in Inputs, label \in {0, 1}}

\* _add_noise_to_example(example, noise_augmenter, "tokens"), example being the
\* dict record: example["tokens"] = noise_augmenter.add_noise(example["tokens"])
\* writes into the dict it was given and returns that same dict. arg is the
\* dict as given, obj the caller's dict after the call, ret the dict returned.
AddNoiseToExample(i, record) ==
    /\ Call(i, record.tokens)
    /\ example' =
         IF last'[i].status = "ok"
         THEN LET noised == [record EXCEPT !.tokens.val = last'[i].output] IN
              [status |-> "ok", arg |-> record, obj |-> noised, ret |-> noised]
         ELSE [status |-> last'[i].status, arg |-> record, obj |-> record,
               ret |-> NoRecord]
    /\ UNCHANGED <<aug, mt, hist, exec>>

NextDataset ==
    \/ \E args \in PairArgs :
          Construct(1, args.noise_level, args.actions, args.character_set, "None")
    \/ \E record \in Examples : AddNoiseToExample(1, record)

SpecDataset == Init /\ [][NextDataset]_vars

----------------------------------------------------------------------------
(* SpecSwap: an augmenter whose only action is swap, called on single strings *)

SwapLevels == {300, 450, MAX_SWAP_LEVEL}

SwapTexts ==
    { <<>>, <<"a">>, <<"a", "b">>, <<"a", "b", "c">>, <<"a", "b", "c", "d">> }

NextSwap ==
    \/ \E noise_level \in SwapLevels, character_set \in CharacterSets :
          Construct(1, noise_level, <<"swap">>, character_set, "None")
    \/ \E text \in SwapTexts : AddNoise(1, Str(text))

SpecSwap == Init /\ [][NextSwap]_vars

----------------------------------------------------------------------------
(* SpecOrder: augmenters of several actions, swap among them, and their calls *)

OrderArgs ==
    { <<"insert", "swap">>, <<"swap", "insert">>, <<"delete", "swap">>,
      <<"swap", "delete", "swap">>, AVAILABLE_ACTIONS }

OrderLevels == {300, MAX_SWAP_LEVEL}

NextOrder ==
    \/ \E noise_level \in OrderLevels, actions \in OrderArgs :
          Construct(1, noise_level, actions, <<"a", "b">>, "None")
    \/ \E text \in Inputs : AddNoise(1, text)

SpecOrder == Init /\ [][NextOrder]_vars

----------------------------------------------------------------------------
(* Properties of the executors and of add_noise *)

\* The sets of pairwise disjoint adjacent pairs of a text of length n, each pair
\* (k, k+1) named by k.
DisjointPairSets(n) == {S \in SUBSET (1..(n - 1)) : \A k \in S : (k + 1) \notin S}

\* text with every pair of S transposed.
Transposed(text, S) ==
    [k \in 1..Len(text) |->
        IF k \in S THEN text[k + 1]
        ELSE IF (k - 1) \in S THEN text[k - 1]
        ELSE text[k]]

CharCount(text, c) == Cardinality({k \in 1..Len(text) : text[k] = c})

\* Every text an executor can return for text, whatever the draws.
RECURSIVE InsertImage(_, _)
InsertImage(text, cs) ==
    IF text = <<>> THEN {<<>>}
    ELSE LET rest == InsertImage(Tail(text), cs) IN
         {<<Head(text)>> \o r : r \in rest}
         \cup {<<Head(text), c>> \o r : c \in Range(cs), r \in rest}

RECURSIVE DeleteImage(_)
DeleteImage(text) ==
    IF text = <<>> THEN {<<>>}
    ELSE LET rest == DeleteImage(Tail(text)) IN
         rest \cup {<<Head(text)>> \o r : r \in rest}

SubstituteImage(text, cs) ==
    {y \in [1..Len(text) -> Range(text) \cup Range(cs)] :
        \A k \in 1..Len(text) : y[k] = text[k] \/ y[k] \in Range(cs)}

SwapImage(text) == {Transposed(text, S) : S \in DisjointPairSets(Len(text))}

ActionImage(action, text, cs) ==
    CASE action = "insert" -> InsertImage(text, cs)
      [] action = "delete" -> DeleteImage(text)
      [] action = "substitute" -> SubstituteImage(text, cs)
      [] action = "swap" -> SwapImage(text)
      [] OTHER -> {}

\* Every text the actions from the k-th on can make of a text of X.
RECURSIVE ChainImage(_, _, _, _)
ChainImage(actions, k, X, cs) ==
    IF k > Len(actions) THEN X
    ELSE ChainImage(actions, k + 1, UNION {ActionImage(actions[k], x, cs) : x \in X}, cs)

Called(i) == last[i].status # "none"

Returned(i) == last[i].status = "ok"

----------------------------------------------------------------------------
(* C1: for every configuration the constructor accepts and every input (a str,
   the empty one included, or a list of str), add_noise returns a value and
   never raises. Stated as: every add_noise call made so far returned. *)
C1_AddNoiseNeverFails == \A i \in Instances : Called(i) => Returned(i)

(* C2: when the characters of a token list total 0 (the empty list, or only
   empty tokens), the word-split correction returns the noise level unchanged
   instead of dividing by zero, and add_noise returns a list equal to its
   input. *)
C2_EmptyTotalIsIdentity ==
    \A i \in Instances :
        (Called(i) /\ last[i].kind = "list" /\ SumLen(last[i].input) = 0)
        => /\ unbias_split_into_words(aug[i].noise_level, last[i].input)
                = Prob(aug[i].noise_level)
           /\ Returned(i)
           /\ last[i].output = last[i].input

(* C3: construction fails with a validation error when an action name is not
   one of insert, delete, substitute, swap; when noise_level is outside [0,1];
   or when swap is among the actions and noise_level > MAX_SWAP_LEVEL; and
   construction with actions = [swap] at exactly MAX_SWAP_LEVEL succeeds. *)
C3_ConstructionValidates ==
    \A i \in Instances :
        aug[i].state # "none"
        => /\ ( \/ \E k \in 1..Len(aug[i].actions_arg) :
                     aug[i].actions_arg[k] \notin {"insert", "delete", "substitute", "swap"}
                \/ aug[i].noise_level < 0
                \/ aug[i].noise_level > Scale
                \/ ( "swap" \in Range(aug[i].actions_arg)
                     /\ aug[i].noise_level > MAX_SWAP_LEVEL ) )
              => aug[i].state = "ValueError"
           /\ (aug[i].actions_arg = <<"swap">> /\ aug[i].noise_level = MAX_SWAP_LEVEL)
              => aug[i].state = "ok"

\* Swap was asked one unit above MAX_SWAP_LEVEL, and the constructor refused.
C3_Witness ==
    /\ aug[1].state = "ValueError"
    /\ aug[1].error = "swap level"
    /\ aug[1].actions_arg = <<"swap">>
    /\ aug[1].noise_level = MAX_SWAP_LEVEL + 1

----------------------------------------------------------------------------
(* C5, as stated: two augmenters built with the same seed and the same
   configuration, each given the same sequence of add_noise calls with the same
   inputs, return identical outputs call by call, whatever the interleaving of
   the calls on the two instances. *)
SameBuild ==
    /\ aug[1].state = "ok"
    /\ aug[2].state = "ok"
    /\ aug[1].noise_level = aug[2].noise_level
    /\ aug[1].actions_arg = aug[2].actions_arg
    /\ aug[1].character_set = aug[2].character_set
    /\ rng[1].seed = rng[2].seed

SameInputsUpTo(n) ==
    \A j \in 1..n : /\ hist[1][j].kind = hist[2][j].kind
                    /\ hist[1][j].input = hist[2][j].input

SameOutputsUpTo(n) ==
    \A j \in 1..n : /\ hist[1][j].status = hist[2][j].status
                    /\ hist[1][j].output = hist[2][j].output

CallByCallEqual ==
    \A n \in 1..Min(Len(hist[1]), Len(hist[2])) :
        SameInputsUpTo(n) => SameOutputsUpTo(n)

C5_SameSeedSameOutputs == SameBuild => CallByCallEqual

(* C5, amended: two augmenters built with the same integer seed (not None)
   and the same configuration, each given the same sequence of add_noise calls
   with the same inputs, return identical outputs call by call, whatever the
   interleaving of the calls on the two instances. *)
C5_SameIntegerSeedSameOutputs ==
    (SameBuild /\ rng[1].seed # "None") => CallByCallEqual

\* Both augmenters were built with seed 42 and the same configuration, and each
\* made the same two calls, which changed the text.
C5_Witness ==
    /\ SameBuild
    /\ rng[1].seed = "42"
    /\ Len(hist[1]) = 2
    /\ Len(hist[2]) = 2
    /\ SameInputsUpTo(2)
    /\ hist[1][1].input # hist[1][2].input
    /\ hist[1][1].output # hist[1][1].input

(* C6: in token mode add_noise returns a list with the same number of tokens in
   the same order, output token k being made from input token k alone by the
   configured actions (nothing crosses a token boundary); for a str input the
   output is a str, held here as one word. *)
C6_TokensKeptApart ==
    \A i \in Instances :
        Returned(i)
        => /\ Len(last[i].output) = Len(last[i].input)
           /\ \A k \in 1..Len(last[i].input) :
                last[i].output[k] \in
                    ChainImage(aug[i].actions, 1, {last[i].input[k]}, aug[i].character_set)

\* A list of two non-empty tokens came back as two tokens, both changed.
C6_Witness ==
    /\ Returned(1)
    /\ last[1].kind = "list"
    /\ Len(last[1].input) = 2
    /\ \A k \in 1..2 : /\ last[1].input[k] # <<>>
                       /\ last[1].output[k] # last[1].input[k]

(* C7: the swap executor's output has the length and the multiset of characters
   of its input, is the input with a set of pairwise disjoint adjacent pairs
   transposed, and no character takes part in more than one swap. *)
Swapped == {k \in 1..(Len(exec.text) - 1) : exec.res.hit[k]}

C7_SwapIsDisjointTranspositions ==
    exec.op = "swap"
    => /\ exec.res.err = ""
       /\ Len(exec.res.out) = Len(exec.text)
       /\ \A c \in Range(exec.text) \cup Range(exec.res.out) :
            CharCount(exec.res.out, c) = CharCount(exec.text, c)
       /\ exec.res.out \in SwapImage(exec.text)
       /\ Swapped \in DisjointPairSets(Len(exec.text))
       /\ exec.res.out = Transposed(exec.text, Swapped)
       /\ \A k \in 1..Len(exec.text) :
            \E j \in {k - 1, k, k + 1} \cap (1..Len(exec.text)) :
                exec.res.out[j] = exec.text[k]

\* The first pair of a text of three distinct characters was swapped, and the
\* third character stayed.
C7_Witness ==
    /\ exec.op = "swap"
    /\ exec.text = <<"a", "b", "c">>
    /\ exec.res.out = <<"b", "a", "c">>

(* C8: for every input and every probability, whenever the executor returns,
   delete's output is no longer than its input, insert's is no shorter, and
   substitute's and swap's have exactly the input's length. *)
C8_LengthBounds ==
    (exec.op # "none" /\ exec.res.err = "")
    => /\ exec.op = "delete" => Len(exec.res.out) <= Len(exec.text)
       /\ exec.op = "insert" => Len(exec.res.out) >= Len(exec.text)
       /\ exec.op \in {"substitute", "swap"} => Len(exec.res.out) = Len(exec.text)

\* Delete removed some characters of a text and kept others.
C8_Witness ==
    /\ exec.op = "delete"
    /\ exec.res.err = ""
    /\ 0 < Len(exec.res.out)
    /\ Len(exec.res.out) < Len(exec.text)

(* C9: in the substitute executor's output, every position chosen for mutation
   holds a character of character_set other than the original one, and every
   position not chosen holds the original character. *)
C9_SubstituteChangesChosenOnly ==
    (exec.op = "substitute" /\ exec.res.err = "")
    => /\ Len(exec.res.hit) = Len(exec.text)
       /\ Len(exec.res.out) = Len(exec.text)
       /\ \A k \in 1..Len(exec.text) :
            IF exec.res.hit[k]
            THEN /\ exec.res.out[k] \in Range(exec.character_set)
                 /\ exec.res.out[k] # exec.text[k]
            ELSE exec.res.out[k] = exec.text[k]

\* Substitute chose some positions and not others, and at a chosen one a first
\* draw of the original character was rejected.
C9_Witness ==
    /\ exec.op = "substitute"
    /\ exec.res.err = ""
    /\ \E k \in 1..Len(exec.text) : exec.res.hit[k]
    /\ \E k \in 1..Len(exec.text) : ~exec.res.hit[k]
    /\ exec.res.pos >
         Len(exec.text) + Cardinality({k \in 1..Len(exec.text) : exec.res.hit[k]})

(* C10: whenever substitute is configured, construction accepts only a
   character_set of at least 2 symbols, so that in every accepted configuration
   the rejection loop of substitute terminates for every input character. *)
C10_SubstituteAlphabetValidated ==
    \A i \in Instances :
        /\ (aug[i].state = "ok" /\ "substitute" \in Range(aug[i].actions))
           => Len(aug[i].character_set) >= 2
        /\ last[i].status # "hang"

----------------------------------------------------------------------------
\* The probabilities add_noise computes for the call recorded in last[i]: the
\* word-split-corrected level and the per-action probability.
CorrectedLevel(i) ==
    IF last[i].kind = "list"
    THEN unbias_split_into_words(aug[i].noise_level, last[i].input)
    ELSE Prob(aug[i].noise_level)

PerActionLevel(i) == unbias_several_action(CorrectedLevel(i).v, Len(aug[i].actions))

IsProbability(x) == x.err = "" /\ ~x.complex /\ 0 <= x.v /\ x.v <= Scale

(* C11: for every accepted configuration and every input, each probability
   computed inside add_noise (the word-split-corrected level, the per-action
   probability after the composition correction, and the per-pair probability
   after the swap correction) lies in [0,1]. *)
C11_CorrectedProbabilitiesInUnitInterval ==
    \A i \in Instances :
        (Called(i) /\ CorrectedLevel(i).err = "" /\ aug[i].actions # <<>>)
        => /\ IsProbability(CorrectedLevel(i))
           /\ IsProbability(PerActionLevel(i))
           /\ \A k \in 1..Len(last[i].input) :
                LET p_swap == unbias_swap(PerActionLevel(i).v, Len(last[i].input[k])) IN
                0 <= p_swap /\ p_swap <= Scale

----------------------------------------------------------------------------
\* The place of the first occurrence of x in seq.
FirstIndex(seq, x) == CHOOSE k \in 1..Len(seq) : seq[k] = x /\ \A j \in 1..(k - 1) : seq[j] # x

(* C12: the augmenter's stored action list holds each action name of the
   constructor's actions argument exactly once, in the order of first
   occurrence in that argument: no duplicates, no additions, no reordering. *)
C12_ActionsDeduplicatedInOrder ==
    \A i \in Instances :
        aug[i].state # "none"
        => /\ Range(aug[i].actions) = Range(aug[i].actions_arg)
           /\ \A j, k \in 1..Len(aug[i].actions) :
                j < k => /\ aug[i].actions[j] # aug[i].actions[k]
                         /\ FirstIndex(aug[i].actions_arg, aug[i].actions[j])
                              < FirstIndex(aug[i].actions_arg, aug[i].actions[k])

\* An argument naming substitute twice, around delete, was stored as substitute
\* then delete.
C12_Witness ==
    /\ aug[1].state = "ok"
    /\ aug[1].actions_arg = <<"substitute", "delete", "substitute">>
    /\ aug[1].actions = <<"substitute", "delete">>

----------------------------------------------------------------------------
(* C13: the single-record mapping function is pure: applied to a record, it
   returns the noised record and leaves the record object it was given as it
   was (the caller's record still holds the original feature value). *)
C13_MappingLeavesRecordUntouched ==
    example.status = "ok"
    => /\ example.ret.tokens.val = last[1].output
       /\ example.ret.label = example.arg.label
       /\ example.obj = example.arg

----------------------------------------------------------------------------
\* Every output add_noise of the augmenter self has for the str text, over the
\* random streams: a stream of period Len(text) + 2 can hold any outcome of the
\* draws one call makes on text.
OutputsOf(self, text) ==
    {add_noise(self, Str(text), tape, 0).out[1] : tape \in TapesOf(Len(text) + 2)}

(* C14: with actions = [swap] and 0 < noise_level <= MAX_SWAP_LEVEL, the set of
   outputs add_noise can produce for a string is exactly the set of strings
   obtained by transposing some set of pairwise disjoint adjacent pairs (for
   "abcd": abcd, abdc, acbd, bacd, badc); for a string of length 0 or 1 the
   only output is the input, and a trailing unmatched character is emitted
   unchanged. *)
C14_SwapOutputsAreExactlyTheDisjointTranspositions ==
    ( /\ Returned(1)
      /\ last[1].kind = "str"
      /\ aug[1].actions = <<"swap">>
      /\ 0 < aug[1].noise_level
      /\ aug[1].noise_level <= MAX_SWAP_LEVEL )
    => LET text == last[1].input[1]
           out == last[1].output[1]
           n == Len(text)
       IN /\ out \in SwapImage(text)
          /\ OutputsOf(aug[1], text) = SwapImage(text)
          /\ n <= 1 => out = text
          /\ n >= 1 => \/ out[n] = text[n]
                       \/ n >= 2 /\ out[n] = text[n - 1] /\ out[n - 1] = text[n]
          /\ text = <<"a", "b", "c", "d">>
             => OutputsOf(aug[1], text) =
                  { <<"a", "b", "c", "d">>, <<"a", "b", "d", "c">>, <<"a", "c", "b", "d">>,
                    <<"b", "a", "c", "d">>, <<"b", "a", "d", "c">> }

\* Of "abcd" the middle pair was swapped, and the trailing d came out unchanged.
C14_Witness ==
    /\ Returned(1)
    /\ aug[1].actions = <<"swap">>
    /\ last[1].input = << <<"a", "b", "c", "d">> >>
    /\ last[1].output = << <<"a", "c", "b", "d">> >>

----------------------------------------------------------------------------
(* C15: with noise_level = 0, add_noise returns its input unchanged for every
   str or token list with at least one character and every non-empty
   combination of actions (the alphabet being non-empty, as a configuration
   requires): the composition correction of 0 is 0, the swap correction of 0
   is 0, and a success test with probability 0 never succeeds. *)
C15_ZeroNoiseIsIdentity ==
    \A i \in Instances :
        ( /\ Called(i)
          /\ aug[i].noise_level = 0
          /\ aug[i].actions # <<>>
          /\ aug[i].character_set # <<>>
          /\ SumLen(last[i].input) > 0 )
        => /\ Returned(i)
           /\ last[i].output = last[i].input
           /\ CorrectedLevel(i) = Prob(0)
           /\ PerActionLevel(i) = Prob(0)
           /\ \A k \in 1..Len(last[i].input) :
                unbias_swap(PerActionLevel(i).v, Len(last[i].input[k])) = 0
           /\ \A pos \in 0..(Len(rng[i].tape) - 1) : ~random_success(0, rng[i].tape, pos)

\* The four actions at noise level 0 returned a list of two tokens as it was.
C15_Witness ==
    /\ Returned(1)
    /\ aug[1].noise_level = 0
    /\ aug[1].actions = AVAILABLE_ACTIONS
    /\ last[1].kind = "list"
    /\ last[1].input = << <<"a">>, <<"a", "b">> >>
    /\ last[1].output = last[1].input

----------------------------------------------------------------------------
\* One action on one word with the per-action probability p, the swap taking its
\* per-pair probability from the length of the word as it is handed over.
OneAction(action, word, p, cs, tape, pos) ==
    CASE action = "insert" -> insert_random_chars(word, p, cs, tape, pos)
      [] action = "substitute" -> substitute_random_chars(word, p, cs, tape, pos)
      [] action = "delete" -> delete_random_chars(word, p, tape, pos)
      [] action = "swap" ->
           SwapLoop(word, 1, unbias_swap(p, Len(word)), tape, Res(<<>>, pos, ""), FALSE)

\* One action over the words from left to right, the stream running on.
RECURSIVE OverWords(_, _, _, _, _, _)
OverWords(action, words, p, cs, tape, pos) ==
    IF words = <<>> THEN Res(<<>>, pos, "")
    ELSE LET r == OneAction(action, Head(words), p, cs, tape, pos) IN
         IF r.err # "" THEN Res(<<>>, r.pos, r.err)
         ELSE LET rest == OverWords(action, Tail(words), p, cs, tape, r.pos) IN
              IF rest.err # "" THEN rest
              ELSE Res(<<r.out>> \o rest.out, rest.pos, "")

\* The actions in the order given, each over the words the one before returned.
RECURSIVE InOrder(_, _, _, _, _, _)
InOrder(actions, words, p, cs, tape, pos) ==
    IF actions = <<>> THEN Res(words, pos, "")
    ELSE LET r == OverWords(Head(actions), words, p, cs, tape, pos) IN
         IF r.err # "" THEN r
         ELSE InOrder(Tail(actions), r.out, p, cs, tape, r.pos)

(* C16: add_noise runs the configured actions in their deduplicated declaration
   order, each action taking the previous action's output as its input, and
   swap computes its corrected probability from the length of the text it
   receives at that moment, in token mode from the current length of each
   token. *)
C16_ActionsRunInDeclarationOrder ==
    \A i \in Instances :
        ( /\ Called(i)
          /\ CorrectedLevel(i).err = ""
          /\ PerActionLevel(i).err = ""
          /\ ~PerActionLevel(i).complex )
        => LET r == InOrder(Dedup(aug[i].actions_arg), last[i].input, PerActionLevel(i).v,
                            aug[i].character_set, rng[i].tape, last[i].pre)
           IN /\ last[i].status = (IF r.err = "" THEN "ok" ELSE r.err)
              /\ r.err = "" => last[i].output = r.out
              /\ rng[i].pos = r.pos % Len(rng[i].tape)

\* Insert lengthened a str and swap then moved an inserted character: the output
\* is longer than the input and is no output of insert alone, and the swap
\* correction for the longer text is not that for the text given.
C16_Witness ==
    /\ Returned(1)
    /\ aug[1].actions = <<"insert", "swap">>
    /\ last[1].kind = "str"
    /\ Len(last[1].output[1]) > Len(last[1].input[1])
    /\ last[1].output[1] \notin InsertImage(last[1].input[1], aug[1].character_set)
    /\ unbias_swap(PerActionLevel(1).v, Len(last[1].output[1]))
         # unbias_swap(PerActionLevel(1).v, Len(last[1].input[1]))

----------------------------------------------------------------------------
\* The number of positions of the executor's text where the success test passed.
Hits == Cardinality({k \in 1..Len(exec.res.hit) : exec.res.hit[k]})

\* The place in the output of the k-th source character: after the k - 1 source
\* characters before it and the characters inserted after them.
PlaceOf(k) == k + Cardinality({j \in 1..(k - 1) : exec.res.hit[j]})

(* C17: the insert executor's output holds the input's characters in their
   original order, with at most one extra character, drawn from character_set,
   placed immediately after a source character: nothing is inserted before the
   first character, the empty string stays empty, and the output length is
   between len(input) and 2 * len(input). *)
C17_InsertAfterSourceCharacters ==
    (exec.op = "insert" /\ exec.res.err = "")
    => /\ exec.res.out \in InsertImage(exec.text, exec.character_set)
       /\ Len(exec.res.hit) = Len(exec.text)
       /\ Len(exec.res.out) = Len(exec.text) + Hits
       /\ Len(exec.text) <= Len(exec.res.out)
       /\ Len(exec.res.out) <= 2 * Len(exec.text)
       /\ exec.text = <<>> => exec.res.out = <<>>
       /\ exec.text # <<>> => exec.res.out[1] = exec.text[1]
       /\ \A k \in 1..Len(exec.text) :
            /\ exec.res.out[PlaceOf(k)] = exec.text[k]
            /\ exec.res.hit[k] => exec.res.out[PlaceOf(k) + 1] \in Range(exec.character_set)

\* Insert put a character after some source characters and none after others.
C17_Witness ==
    /\ exec.op = "insert"
    /\ exec.res.err = ""
    /\ Len(exec.text) < Len(exec.res.out)
    /\ Len(exec.res.out) < 2 * Len(exec.text)
    /\ exec.res.out[1] = exec.text[1]
    /\ exec.res.out[2] \in Range(exec.character_set) \ Range(exec.text)

----------------------------------------------------------------------------
\* What a step does to augmenter i. A step that logs a call gives what add_noise
\* gives on the stream as the step before left it, moves the stream by the draws
\* made, and leaves the configuration and the object it was given as they were.
\* Any other step leaves a built augmenter and its stream alone.
CallFrame(i) ==
    IF hist'[i] # hist[i]
    THEN LET rec == hist'[i][Len(hist'[i])] IN
         \A r \in {add_noise(aug[i], [kind |-> rec.kind, val |-> rec.input],
                             rng[i].tape, rng[i].pos)} :
            /\ rec.status = (IF r.err = "" THEN "ok" ELSE r.err)
            /\ r.err = "" => rec.output = r.out
            /\ rec.pre = rng[i].pos
            /\ rec.caller = rec.input
            /\ rng'[i] = [rng[i] EXCEPT !.pos = r.pos % Len(rng[i].tape)]
            /\ aug'[i] = aug[i]
    ELSE aug[i].state # "none" => (aug'[i] = aug[i] /\ rng'[i] = rng[i])

(* C18: a call to add_noise changes no state other than the augmenter's random
   stream: noise_level, the action list and character_set stay as construction
   left them, and the caller's token list is not modified; the stream persists
   between calls, a second call going on from where the first ended instead of
   restarting from the seed. *)
C18_OnlyTheStreamChanges == [][\A i \in Instances : CallFrame(i)]_vars

\* Two calls in a row on the same token list returned different lists, the
\* first of them a changed one.
C18_Witness ==
    /\ Len(hist[1]) = 2
    /\ hist[1][1].kind = "list"
    /\ hist[1][2].kind = "list"
    /\ hist[1][1].input = hist[1][2].input
    /\ hist[1][1].status = "ok"
    /\ hist[1][2].status = "ok"
    /\ hist[1][1].output # hist[1][1].input
    /\ hist[1][1].output # hist[1][2].output
    /\ hist[1][2].pre # 0

====
